---- MODULE Spec2Model ----
(***************************************************************************)
(* SOCKS5 server (Abdullah2993/socks5-server): the per-connection protocol *)
(* state machine of socks5/conn.go, the address codec and the server's     *)
(* accept loop and command handlers.                                       *)
(*                                                                         *)
(* Bytes are naturals 0..255.  A Go slice is a TLA+ sequence; Go index i   *)
(* is TLA+ index i+1.  The 520-byte scratch buffer of a connection is kept *)
(* without its trailing zero bytes (make() zero-fills it), so buf = <<>>   *)
(* is the freshly allocated buffer.                                        *)
(*                                                                         *)
(* Texts: an address string "host:port" is a record                        *)
(*   [host |-> H, port |-> digits]  where H is                             *)
(*   [k |-> "ip4", ip |-> 4 bytes]   a dotted-quad literal,                *)
(*   [k |-> "ip6", ip |-> 16 bytes]  an IPv6 literal (bracketed in text),  *)
(*   [k |-> "name", s |-> chars]     any other host text,                  *)
(* and port is the sequence of the port's characters.  The host names the  *)
(* model draws are not IP literals.                                        *)
(***************************************************************************)
EXTENDS Integers, Sequences, FiniteSets, TLC

\* ---------------------------------------------------------------- bounds
MaxConns == 1
MaxMethods == 2
MaxServes == 2
MaxBuf == 8

\* ------------------------------------------------------ program constants
socksVer5 == 5
reserve == 0
subNegotiationVer == 1
BufSize == 520

CommandConnect == 1
CommandBind == 2
CommandUDPAssociation == 3

responseSuccess == 0
responseGeneralFailure == 1
responseHostUnreachable == 4
responseCommandNotSupported == 7
responseAddressNotSupported == 8

AddrTypeIPv4 == 1
AddrTypeDomain == 3
AddrTypeIPv6 == 4

IPv4len == 4
IPv6len == 16

\* method bytes of the authentication plug-ins (their file is not among the
\* sources; the values are the specification's wire constants)
noAuth == 0
userPassAuth == 2
noAcceptable == 255

NoIP == <<>>

\* ------------------------------------------------------------ Go slices
Max(a, b) == IF a > b THEN a ELSE b
Min(a, b) == IF a < b THEN a ELSE b

\* the length of s[1..k] without its trailing zero bytes
RECURSIVE LastNonZero(_, _)
LastNonZero(s, k) == IF k = 0 \/ s[k] # 0 THEN k ELSE LastNonZero(s, k - 1)

\* s without its trailing zero bytes
Trim(s) == SubSeq(s, 1, LastNonZero(s, Len(s)))

\* b[i] of the zero-filled buffer b
At(b, i) == IF i < Len(b) THEN b[i+1] ELSE 0

\* b[lo:hi]
Sl(b, lo, hi) == [k \in 1..(hi - lo) |-> At(b, lo + k - 1)]

\* the scratch buffer after storing s at buf[off:off+len(s)]
Put(b, off, s) ==
  Trim([k \in 1..Max(Len(b), off + Len(s)) |->
          IF k - 1 >= off /\ k - 1 < off + Len(s) THEN s[k - off] ELSE At(b, k - 1)])

\* copy(b[off:], s) on a slice b of length n: min(n - off, len(s)) bytes
Copy(b, n, off, s) == Put(b, off, SubSeq(s, 1, Min(Len(s), Max(n - off, 0))))

\* bytes.IndexByte
IndexByte(s, x) ==
  IF \E i \in 1..Len(s) : s[i] = x
  THEN (CHOOSE i \in 1..Len(s) : s[i] = x /\ \A j \in 1..(i-1) : s[j] # x) - 1
  ELSE -1

\* binary.BigEndian
Uint16LittleEndian(s) == s[2] * 256 + s[1]

Uint16(s) == s[1] * 256 + s[2]
PutUint16(p) == <<p \div 256, p % 256>>

\* ------------------------------------------------------- library: strconv
Digit(d) == 48 + d

RECURSIVE Itoa(_)
Itoa(n) == IF n < 10 THEN <<Digit(n)>> ELSE Itoa(n \div 10) \o <<Digit(n % 10)>>

RECURSIVE DigitsValue(_)
DigitsValue(s) ==
  IF s = <<>> THEN 0 ELSE DigitsValue(SubSeq(s, 1, Len(s) - 1)) * 10 + (s[Len(s)] - 48)

\* strconv.ParseUint(port, 10, 16)
ParseUint16(s) ==
  IF s = <<>> \/ \E i \in 1..Len(s) : s[i] < 48 \/ s[i] > 57 \/ Len(s) > 5
  THEN [err |-> TRUE, v |-> 0]
  ELSE IF DigitsValue(s) > 65535 THEN [err |-> TRUE, v |-> 65535]
       ELSE [err |-> FALSE, v |-> DigitsValue(s)]

\* ----------------------------------------------------------- library: net
v4InV6Prefix == <<0, 0, 0, 0, 0, 0, 0, 0, 0, 0, 255, 255>>

\* net.IP.To4
To4(ip) ==
  IF Len(ip) = IPv4len THEN ip
  ELSE IF Len(ip) = IPv6len /\ SubSeq(ip, 1, 12) = v4InV6Prefix THEN SubSeq(ip, 13, 16)
  ELSE NoIP

\* net.IP.To16
To16(ip) ==
  IF Len(ip) = IPv4len THEN v4InV6Prefix \o ip
  ELSE IF Len(ip) = IPv6len THEN ip
  ELSE NoIP

\* net.ParseIP: the 16-byte form of an IP literal, nil for any other text
ParseIP(h) == IF h.k \in {"ip4", "ip6"} THEN To16(h.ip) ELSE NoIP

\* net.IP.String of a 4- or 16-byte address
IPString(ip) ==
  IF To4(ip) # NoIP THEN [k |-> "ip4", ip |-> To4(ip)] ELSE [k |-> "ip6", ip |-> ip]

\* string(bytes) used as a host
HostOfBytes(s) == [k |-> "name", s |-> s]

\* the text of a 16-byte address that is no IPv4 address: eight groups in
\* lower-case hexadecimal, the first longest run of two or more zero groups
\* written "::"
HexDigit(d) == IF d < 10 THEN 48 + d ELSE 87 + d

RECURSIVE Hex(_)
Hex(n) == IF n < 16 THEN <<HexDigit(n)>> ELSE Hex(n \div 16) \o <<HexDigit(n % 16)>>

Group(ip, g) == ip[2 * g - 1] * 256 + ip[2 * g]

\* the number of zero groups in a row from group g on
RECURSIVE ZeroRun(_, _)
ZeroRun(ip, g) == IF g > 8 \/ Group(ip, g) # 0 THEN 0 ELSE 1 + ZeroRun(ip, g + 1)

\* the first group of the run written "::", 0 when there is none
ZeroStart(ip) ==
  LET best == CHOOSE g \in 1..8 :
                /\ \A h \in 1..8 : ZeroRun(ip, h) <= ZeroRun(ip, g)
                /\ \A h \in 1..(g - 1) : ZeroRun(ip, h) < ZeroRun(ip, g)
  IN IF ZeroRun(ip, best) >= 2 THEN best ELSE 0

RECURSIVE IP6Text(_, _, _)
IP6Text(ip, g, e0) ==
  LET e1 == e0 + ZeroRun(ip, e0)
  IN IF g > 8 THEN <<>>
     ELSE IF g = e0
     THEN <<58, 58>> \o (IF e1 > 8 THEN <<>>
                         ELSE Hex(Group(ip, e1)) \o IP6Text(ip, e1 + 1, e0))
     ELSE (IF g > 1 THEN <<58>> ELSE <<>>) \o Hex(Group(ip, g)) \o IP6Text(ip, g + 1, e0)

\* the characters of a host text (len(host), copy(b, host))
HostChars(h) ==
  CASE h.k = "name" -> h.s
    [] h.k = "ip4" -> Itoa(h.ip[1]) \o <<46>> \o Itoa(h.ip[2]) \o <<46>>
                        \o Itoa(h.ip[3]) \o <<46>> \o Itoa(h.ip[4])
    [] h.k = "ip6" -> IP6Text(h.ip, 1, ZeroStart(h.ip))

JoinHostPort(h, p) == [host |-> h, port |-> p]

\* net.SplitHostPort: fails on a text without a port
SplitHostPort(a) ==
  IF "port" \in DOMAIN a
  THEN [err |-> FALSE, host |-> a.host, port |-> a.port]
  ELSE [err |-> TRUE, host |-> a.host, port |-> <<>>]

\* ------------------------------------------------------------ address codec
\* newAddr: nil is the record with Type 0
NilAddr == [Type |-> 0, Addr |-> [host |-> [k |-> "name", s |-> <<>>]]]

newAddr(addr) ==
  LET hp == SplitHostPort(addr)
      ip == ParseIP(hp.host)
  IN IF hp.err THEN NilAddr
     ELSE IF ip = NoIP THEN [Type |-> AddrTypeDomain, Addr |-> addr]
     ELSE IF To4(ip) # NoIP THEN [Type |-> AddrTypeIPv4, Addr |-> addr]
     ELSE [Type |-> AddrTypeIPv6, Addr |-> addr]

\* socksAddr.Marshal(b) on a slice b of length n, given like the scratch
\* buffer without its trailing zero bytes: [n, err, b] with b the slice afterwards
MarshalTypeByteFirst(s, b, n) ==
  LET hp == SplitHostPort(s.Addr)
      ip == ParseIP(hp.host)
      al == CASE s.Type = AddrTypeIPv4 -> IPv4len
              [] s.Type = AddrTypeIPv6 -> IPv6len
              [] s.Type = AddrTypeDomain -> 1 + Len(HostChars(hp.host))
              [] OTHER -> 0
      b1 == Copy(b, n, 0, <<s.Type>>)
      b2 == CASE s.Type = AddrTypeIPv4 -> Copy(b1, n, 1, To4(ip))
              [] s.Type = AddrTypeIPv6 -> Copy(b1, n, 1, To16(ip))
              [] s.Type = AddrTypeDomain ->
                   Copy(Copy(b1, n, 1, <<Len(HostChars(hp.host)) % 256>>), n, 2,
                        HostChars(hp.host))
              [] OTHER -> b1
      p == ParseUint16(hp.port)
  IN IF hp.err THEN [n |-> 0, err |-> "ErrInvalidAddr", b |-> b]
     ELSE IF ip = NoIP /\ s.Type \in {AddrTypeIPv4, AddrTypeIPv6}
     THEN [n |-> 0, err |-> "ErrInvalidAddr", b |-> b]
     ELSE IF n < al + 3 THEN [n |-> 0, err |-> "ErrShortBuffer", b |-> b1]
     ELSE IF p.err THEN [n |-> 0, err |-> "ErrInvalidPort", b |-> b2]
     ELSE [n |-> 3 + al, err |-> "nil", b |-> Copy(b2, n, 1 + al, PutUint16(p.v))]

Marshal(s, b, n) ==
  LET hp == SplitHostPort(s.Addr)
      ip == ParseIP(hp.host)
      al == CASE s.Type = AddrTypeIPv4 -> IPv4len
              [] s.Type = AddrTypeIPv6 -> IPv6len
              [] s.Type = AddrTypeDomain -> 1 + Len(HostChars(hp.host))
              [] OTHER -> 0
      b1 == Copy(b, n, 0, <<s.Type>>)
      b2 == CASE s.Type = AddrTypeIPv4 -> Copy(b1, n, 1, To4(ip))
              [] s.Type = AddrTypeIPv6 -> Copy(b1, n, 1, To16(ip))
              [] s.Type = AddrTypeDomain ->
                   Copy(Copy(b1, n, 1, <<Len(HostChars(hp.host)) % 256>>), n, 2,
                        HostChars(hp.host))
              [] OTHER -> b1
      p == ParseUint16(hp.port)
  IN IF hp.err THEN [n |-> 0, err |-> "ErrInvalidAddr", b |-> b]
     ELSE IF ip = NoIP /\ s.Type \in {AddrTypeIPv4, AddrTypeIPv6}
     THEN [n |-> 0, err |-> "ErrInvalidAddr", b |-> b]
     ELSE IF n < al + 3 THEN [n |-> 0, err |-> "ErrShortBuffer", b |-> b]
     ELSE IF p.err THEN [n |-> 0, err |-> "ErrInvalidPort", b |-> b2]
     ELSE [n |-> 3 + al, err |-> "nil", b |-> Copy(b2, n, 1 + al, PutUint16(p.v))]

\* -------------------------------------------------- conn (socks5/conn.go)
\* A conn operation reads the bytes `in` the client supplies (io.ReadFull fails
\* when they run out) and hands at most one slice to Write, which succeeds iff
\* wok.  The result is [buf, wr, err]: the scratch buffer afterwards, the slice
\* handed to Write (<<>> when Write is not called) and the error returned.

\* conn.Negoatiate(auth)
NegoatiateVersionAfterMethods(b, auth, in, wok) ==
  LET b1 == Put(b, 0, SubSeq(in, 1, 2))
      methodCount == At(b1, 1)
      b2 == Put(b1, 0, SubSeq(in, 3, 2 + methodCount))
      i == IndexByte(Sl(b2, 0, methodCount), auth)
      accept == IF i # -1 THEN At(b2, i) ELSE noAcceptable
      b3 == Put(Put(b2, 0, <<socksVer5>>), 1, <<accept>>)
  IN IF Len(in) < 2 THEN [buf |-> Put(b, 0, in), wr |-> <<>>, err |-> "EOF"]
     ELSE IF Len(in) < 2 + methodCount
     THEN [buf |-> Put(b1, 0, SubSeq(in, 3, Len(in))), wr |-> <<>>, err |-> "EOF"]
     ELSE IF At(b1, 0) # socksVer5
     THEN [buf |-> b2, wr |-> <<>>, err |-> "ErrInvalidSocksVer"]
     ELSE [buf |-> b3, wr |-> Sl(b3, 0, 2),
           err |-> IF ~wok THEN "EIO"
                   ELSE IF accept = noAcceptable THEN "ErrNoAcceptableMethod"
                   ELSE "nil"]

NegoatiateFirstMethodOnly(b, auth, in, wok) ==
  LET b1 == Put(b, 0, SubSeq(in, 1, 2))
      methodCount == At(b1, 1)
      b2 == Put(b1, 0, SubSeq(in, 3, 2 + methodCount))
      i == IndexByte(Sl(b2, 0, Min(methodCount, 1)), auth)
      accept == IF i # -1 THEN At(b2, i) ELSE noAcceptable
      b3 == Put(Put(b2, 0, <<socksVer5>>), 1, <<accept>>)
  IN IF Len(in) < 2 THEN [buf |-> Put(b, 0, in), wr |-> <<>>, err |-> "EOF"]
     ELSE IF At(b1, 0) # socksVer5
     THEN [buf |-> b1, wr |-> <<>>, err |-> "ErrInvalidSocksVer"]
     ELSE IF Len(in) < 2 + methodCount
     THEN [buf |-> Put(b1, 0, SubSeq(in, 3, Len(in))), wr |-> <<>>, err |-> "EOF"]
     ELSE [buf |-> b3, wr |-> Sl(b3, 0, 2),
           err |-> IF ~wok THEN "EIO"
                   ELSE IF accept = noAcceptable THEN "ErrNoAcceptableMethod"
                   ELSE "nil"]

Negoatiate(b, auth, in, wok) ==
  LET b1 == Put(b, 0, SubSeq(in, 1, 2))
      methodCount == At(b1, 1)
      b2 == Put(b1, 0, SubSeq(in, 3, 2 + methodCount))
      i == IndexByte(Sl(b2, 0, methodCount), auth)
      accept == IF i # -1 THEN At(b2, i) ELSE noAcceptable
      b3 == Put(Put(b2, 0, <<socksVer5>>), 1, <<accept>>)
  IN IF Len(in) < 2 THEN [buf |-> Put(b, 0, in), wr |-> <<>>, err |-> "EOF"]
     ELSE IF At(b1, 0) # socksVer5
     THEN [buf |-> b1, wr |-> <<>>, err |-> "ErrInvalidSocksVer"]
     ELSE IF Len(in) < 2 + methodCount
     THEN [buf |-> Put(b1, 0, SubSeq(in, 3, Len(in))), wr |-> <<>>, err |-> "EOF"]
     ELSE [buf |-> b3, wr |-> Sl(b3, 0, 2),
           err |-> IF ~wok THEN "EIO"
                   ELSE IF accept = noAcceptable THEN "ErrNoAcceptableMethod"
                   ELSE "nil"]

NoRequest == [method |-> 0, addr |-> NilAddr]

\* conn.ReadCommandRequest(): [buf, err, method, addr]
ReadCommandRequest(b, in) ==
  LET b1 == Put(b, 0, SubSeq(in, 1, 5))
      addrType == At(b1, 3)
      domain == addrType = AddrTypeDomain
      addrLength == CASE addrType = AddrTypeIPv4 -> IPv4len
                      [] addrType = AddrTypeIPv6 -> IPv6len
                      [] OTHER -> At(b1, 4)
      offset == IF domain THEN 0 ELSE 1
      b2 == Put(b1, 0, <<At(b1, 4)>>)
      want == addrLength + 2 - offset
      b3 == Put(b2, offset, SubSeq(in, 6, 5 + want))
      addrBytes == Sl(b3, 0, addrLength)
      port == Uint16(Sl(b3, addrLength, addrLength + 2))
      targetHost == IF domain THEN HostOfBytes(addrBytes) ELSE IPString(addrBytes)
  IN IF Len(in) < 5
     THEN [buf |-> Put(b, 0, in), err |-> "EOF"] @@ NoRequest
     ELSE IF At(b1, 0) # socksVer5
     THEN [buf |-> b1, err |-> "ErrInvalidSocksVer"] @@ NoRequest
     ELSE IF addrType \notin {AddrTypeIPv4, AddrTypeIPv6, AddrTypeDomain}
     THEN [buf |-> b1, err |-> "ErrAddressTypeNotSupported",
           method |-> At(b1, 1), addr |-> NilAddr]
     ELSE IF Len(in) < 5 + want
     THEN [buf |-> Put(b2, offset, SubSeq(in, 6, Len(in))), err |-> "EOF",
           method |-> At(b1, 1), addr |-> NilAddr]
     ELSE [buf |-> b3, err |-> "nil", method |-> At(b1, 1),
           addr |-> [Type |-> addrType,
                     Addr |-> JoinHostPort(targetHost, Itoa(port))]]

\* the scratch buffer with its part buf[off:] replaced by s
Splice(b, off, s) == Trim(Sl(b, 0, off) \o s)

\* conn.WriteCommandResponse(res, addr)
WriteCommandResponse(b, res, addr, wok) ==
  LET b1 == Put(Put(Put(b, 0, <<socksVer5>>), 1, <<res>>), 2, <<reserve>>)
      saddr == newAddr(addr)
      m == Marshal(saddr, Trim(Sl(b1, 3, Max(3, Len(b1)))), BufSize - 3)
      b2 == Splice(b1, 3, m.b)
  IN IF saddr = NilAddr THEN [buf |-> b1, wr |-> <<>>, err |-> "ErrInvalidAddr"]
     ELSE IF m.err # "nil" THEN [buf |-> b2, wr |-> <<>>, err |-> m.err]
     ELSE [buf |-> b2, wr |-> Sl(b2, 0, 3 + m.n), err |-> IF wok THEN "nil" ELSE "EIO"]

\* conn.WriteError(res): copy(errRes, c.buf) fills the local errRes from the
\* scratch buffer, so the scratch buffer keeps its bytes but for buf[1]
WriteError(b, res, wok) ==
  LET errRes == Copy(<<socksVer5, 1, reserve, AddrTypeIPv4>>, 10, 0, b)
      b1 == Put(b, 1, <<res>>)
  IN [buf |-> b1, wr |-> Sl(b1, 0, 10), err |-> IF wok THEN "nil" ELSE "EIO"]

\* ------------------------------------------- authentication plug-ins
\* Authenticator.AuthMethod()
AuthMethod(a) == IF a = "UserPass" THEN userPassAuth ELSE noAuth

Username == <<117>>
Password == <<112>>

\* Authenticator.Authenticate(c): NoAuth succeeds without I/O; UserPass reads
\* the RFC 1929 frame into the scratch buffer and answers version + status
Authenticate(a, b, in, wok) ==
  LET ulen == IF Len(in) >= 2 THEN in[2] ELSE 0
      plen == IF Len(in) >= 3 + ulen THEN in[3 + ulen] ELSE 0
      uname == SubSeq(in, 3, 2 + ulen)
      passwd == SubSeq(in, 4 + ulen, 3 + ulen + plen)
      good == uname = Username /\ passwd = Password
      b1 == Put(b, 0, in)
      b2 == Put(Put(b1, 0, <<subNegotiationVer>>), 1, <<IF good THEN 0 ELSE 1>>)
  IN IF a # "UserPass" THEN [buf |-> b, wr |-> <<>>, err |-> "nil"]
     ELSE IF Len(in) < 2 THEN [buf |-> b1, wr |-> <<>>, err |-> "EOF"]
     ELSE IF in[1] # subNegotiationVer
     THEN [buf |-> Put(b, 0, SubSeq(in, 1, 2)), wr |-> <<>>,
           err |-> "ErrInvalidSubnegotiationVersion"]
     ELSE IF Len(in) < 3 + ulen + plen THEN [buf |-> b1, wr |-> <<>>, err |-> "EOF"]
     ELSE [buf |-> b2, wr |-> Sl(b2, 0, 2),
           err |-> IF ~wok THEN "EIO"
                   ELSE IF good THEN "nil" ELSE "ErrAuthenticationFailed"]

\* ------------------------------------------------------------ environment
Conns == 1..MaxConns

MethodBytes == {noAuth, userPassAuth}

RECURSIVE SeqsUpTo(_, _)
SeqsUpTo(S, n) ==
  IF n = 0 THEN {<<>>}
  ELSE LET R == SeqsUpTo(S, n - 1)
       IN R \cup {Append(r, x) : r \in {q \in R : Len(q) = n - 1}, x \in S}

\* what a client may send as its negotiation frame: every method list up to
\* MaxMethods, a frame of another protocol version, and frames cut short
NegInputs ==
  {<<socksVer5, Len(m)>> \o m : m \in SeqsUpTo(MethodBytes, MaxMethods)}
    \cup {<<4, 1, userPassAuth>>, <<>>, <<socksVer5, 1>>}

AuthInputs ==
  {<<subNegotiationVer, 1>> \o Username \o <<1>> \o Password,
   <<subNegotiationVer, 1>> \o Username \o <<1, 113>>,
   <<2, 1>> \o Username \o <<1>> \o Password,
   <<subNegotiationVer>>}

IP4Target == <<10, 0, 0, 1>>
IP6Any == <<0, 0, 0, 0, 0, 0, 0, 0, 0, 0, 0, 0, 0, 0, 0, 1>>
HostAB == <<97, 98>>

Request(ver, cmd, atyp, addr, port) == <<ver, cmd, reserve, atyp>> \o addr \o PutUint16(port)

\* command requests a client may send
ReqInputs ==
  {Request(socksVer5, CommandConnect, AddrTypeIPv4, IP4Target, 80),
   Request(socksVer5, CommandConnect, AddrTypeDomain, <<Len(HostAB)>> \o HostAB, 80),
   Request(socksVer5, CommandBind, AddrTypeIPv6, IP6Any, 0),
   Request(socksVer5, CommandUDPAssociation, AddrTypeIPv4, IP4Target, 80),
   Request(socksVer5, 9, AddrTypeIPv4, IP4Target, 80),
   Request(4, CommandConnect, AddrTypeIPv4, IP4Target, 80),
   Request(socksVer5, CommandConnect, 2, IP4Target, 80),
   <<socksVer5, CommandConnect, reserve>>}

\* addresses the operating system reports: the local end of a dialed
\* connection, a BIND listener's address, the remote end of an accepted one
IP6Local == <<32, 1, 13, 184, 0, 0, 0, 0, 0, 0, 0, 0, 0, 0, 0, 2>>

DialLocalAddrs ==
  {JoinHostPort([k |-> "ip4", ip |-> <<10, 0, 0, 2>>], Itoa(40000)),
   JoinHostPort([k |-> "ip6", ip |-> IP6Local], Itoa(40001))}
ListenAddrs == {JoinHostPort([k |-> "ip6", ip |-> IP6Any], Itoa(1081))}
PeerAddrs == {JoinHostPort([k |-> "ip4", ip |-> <<10, 0, 0, 9>>], Itoa(5000))}

\* ------------------------------------------------------------------ state
VARIABLES
  Auth,     \* Server.Auth: "NoAuth" or "UserPass"
  Cmds,     \* Server.Cmds: the allowed commands
  crashed,  \* the process died of an unrecovered panic
  pc,       \* pc[c]: where the handler task of connection c stands
  buf,      \* buf[c]: conn.buf, the scratch buffer
  rd,       \* rd[c]: the latest handshake operation, the bytes it read, its error
  out,      \* out[c]: the slices handed to Write on the client connection
  req,      \* req[c]: the command and address ReadCommandRequest returned
  ops,      \* ops[c]: the dial, listen and accept calls of the command handler
  cconn,    \* cconn[c]: the client connection: "none", "open", "closed"
  tconn,    \* tconn[c]: the dialed or accepted connection: "none", "open", "closed"
  cin,      \* cin[c]: what the client offers to Relay: "idle", "data", "eof"
  tin,      \* tin[c]: what the target offers to Relay: "idle", "data", "eof"
  down,     \* down[c]: Relay's goroutine (target to client): "none", "run", "done"
  relayed,  \* relayed[c]: Relay has copied bytes in some direction
  bindl,    \* bindl[c]: the listener handleBind opened: "none", "open", "closed"
  peers,    \* the peers this run meets: "any", or "plain" (well-behaved ones)
  srv,      \* srv[s]: the s-th call of Server.Serve: where it stands, its result
  lsn,      \* lsn[s]: the listener handed to the s-th Serve: "none", "open", "closed"
  listener, \* Server.listener: 0 for nil, else s for the listener of the s-th Serve
  doneChan, \* Server.doneChan: "nil", "open" or "closed"
  marg,     \* the receiver, buffer and buffer length of a Marshal call
  mres,     \* what that Marshal call returned, and the buffer after it
  mtext,    \* the text newAddr made the receiver from, NoText when none did
  mdec      \* what ReadCommandRequest made of the bytes Marshal wrote

connVars ==
  <<crashed, pc, buf, rd, out, req, ops, cconn, tconn, cin, tin, down, relayed, bindl>>
serveVars == <<peers, srv, lsn, listener, doneChan>>
codecVars == <<marg, mres, mtext, mdec>>

vars == <<Auth, Cmds, connVars, serveVars, codecVars>>

NoText == [host |-> [k |-> "name", s |-> <<>>]]
NoRead == [op |-> "none", in |-> <<>>, err |-> "nil"]

\* what the peers of this run do: any client and any outcome of a Write, a
\* Dial or an Accept, or only clients that ask NoAuth and CONNECT to an IPv4
\* address over TCP, with every Write and Dial succeeding
NegIn == IF peers = "plain" THEN {<<socksVer5, 1, noAuth>>} ELSE NegInputs
ReqIn ==
  IF peers = "plain"
  THEN {Request(socksVer5, CommandConnect, AddrTypeIPv4, IP4Target, 80)}
  ELSE ReqInputs
WriteOK == IF peers = "plain" THEN {TRUE} ELSE BOOLEAN
Dialed ==
  IF peers = "plain"
  THEN {JoinHostPort([k |-> "ip4", ip |-> <<10, 0, 0, 2>>], Itoa(40000))}
  ELSE {NoText} \cup DialLocalAddrs
IsTCPConn == IF peers = "plain" THEN {TRUE} ELSE BOOLEAN

\* the calls of Server.Serve, each with a listener of its own
Serves == 1..MaxServes
NoServe == [st |-> "idle", err |-> "nil", res |-> "none", pre |-> FALSE, closed |-> FALSE]
Serving == [NoServe EXCEPT !.st = "accept"]

NoMarshal == [s |-> NilAddr, b |-> <<>>, n |-> 0]
NoResult == [n |-> 0, err |-> "none", b |-> <<>>]
NoDecode == [err |-> "none", method |-> 0, addr |-> NilAddr]

\* the handlers' part of a state in which nothing was accepted yet
NoConns ==
  /\ crashed = FALSE
  /\ pc = [c \in Conns |-> "none"]
  /\ buf = [c \in Conns |-> <<>>]
  /\ rd = [c \in Conns |-> NoRead]
  /\ out = [c \in Conns |-> <<>>]
  /\ req = [c \in Conns |-> NoRequest]
  /\ ops = [c \in Conns |-> <<>>]
  /\ cconn = [c \in Conns |-> "none"]
  /\ tconn = [c \in Conns |-> "none"]
  /\ cin = [c \in Conns |-> "idle"]
  /\ tin = [c \in Conns |-> "idle"]
  /\ down = [c \in Conns |-> "none"]
  /\ relayed = [c \in Conns |-> FALSE]
  /\ bindl = [c \in Conns |-> "none"]

\* The package's ListenAndServe with its options, WithAuth and WithCommands,
\* once its Server has installed the listener and stands in the accept loop.
\* That Server is reachable by nobody else: no Close, no second Serve
Init ==
  /\ Auth \in {"NoAuth", "UserPass"}
  /\ Cmds \in {{CommandConnect}, {CommandConnect, CommandBind}}
  /\ NoConns
  /\ peers = "any"
  /\ srv = [s \in Serves |-> IF s = 1 THEN Serving ELSE NoServe]
  /\ lsn = [s \in Serves |-> IF s = 1 THEN "open" ELSE "none"]
  /\ listener = 1
  /\ doneChan = "nil"
  /\ marg = NoMarshal
  /\ mres = NoResult
  /\ mtext = NoText
  /\ mdec = NoDecode

\* out after an operation with result r (r.wr handed to Write, which returned ok)
Wrote(o, op, r, wok) ==
  IF r.wr = <<>> THEN o ELSE Append(o, [op |-> op, b |-> r.wr, ok |-> wok])

\* ----------------------------------------------------------------- Serve
\* Server.Serve, one turn of the accept loop: a *net.TCPConn gets a conn and a
\* handler task, a connection of any other type gets neither
ServeAccept(c) ==
  /\ ~crashed
  /\ \E s \in Serves : srv[s].st = "accept" /\ lsn[s] = "open"
  /\ pc[c] = "none"
  /\ \A d \in Conns : d < c => pc[d] # "none"
  /\ \E tcp \in IsTCPConn :
       pc' = [pc EXCEPT ![c] = IF tcp THEN "negotiate" ELSE "dropped"]
  /\ cconn' = [cconn EXCEPT ![c] = "open"]
  /\ UNCHANGED <<serveVars, codecVars>>
  /\ UNCHANGED <<Auth, Cmds, crashed, buf, rd, out, req, ops, tconn, cin, tin,
                 down, relayed, bindl>>

\* Server.getDoneChanLocked: the channel is made on first use
getDoneChanLocked(d) == IF d = "nil" THEN "open" ELSE d

\* Server.closeDoneChanLocked: close unless closed already
closeDoneChanLocked(d) == "closed"

\* Server.setNewListener for the listener of the s-th Serve: a listener
\* installed before is closed, doneChan is dropped, the new one is installed
setNewListenerKeepsDoneChan(s) ==
  [lsn |-> [t \in Serves |-> IF t = s THEN "open"
                             ELSE IF t = listener THEN "closed" ELSE lsn[t]],
   doneChan |-> doneChan,
   listener |-> s]

setNewListener(s) ==
  [lsn |-> [t \in Serves |-> IF t = s THEN "open"
                             ELSE IF t = listener THEN "closed" ELSE lsn[t]],
   doneChan |-> "nil",
   listener |-> s]

\* Server.Serve(l) up to the accept loop: checkDefaults, setNewListener(l).
\* pre records that doneChan was closed when this Serve replaced it
ServeStart(s) ==
  /\ ~crashed
  /\ srv[s].st = "idle"
  /\ \A t \in Serves : t < s => srv[t].st # "idle"
  /\ LET n == setNewListener(s)
     IN /\ lsn' = n.lsn
        /\ doneChan' = n.doneChan
        /\ listener' = n.listener
  /\ srv' = [srv EXCEPT ![s] = [Serving EXCEPT !.pre = (doneChan = "closed")]]
  /\ UNCHANGED <<Auth, Cmds, peers, connVars, codecVars>>

\* the errors l.Accept() returns, and net.Error's Temporary()
AcceptErrors(l) == IF l = "open" THEN {"EMFILE", "EINVAL"} ELSE {"ErrClosed"}
Temporary(err) == err = "EMFILE"

\* Server.Serve: l.Accept() returns an error; on a closed listener it can
\* return nothing else
ServeAcceptFails(s) ==
  /\ ~crashed
  /\ srv[s].st = "accept"
  /\ \E e \in AcceptErrors(lsn[s]) : srv' = [srv EXCEPT ![s].st = "err", ![s].err = e]
  /\ UNCHANGED <<Auth, Cmds, peers, lsn, listener, doneChan, connVars, codecVars>>

\* Server.Serve, "if err != nil": where Serve stands next and what it
\* returns, given doneChan as the select finds it
acceptErrorReturnsAny(err, d) ==
  IF d = "closed" THEN [st |-> "ret", res |-> "ErrServerClosed"]
  ELSE [st |-> "ret", res |-> err]

acceptError(err, d) ==
  IF d = "closed" THEN [st |-> "ret", res |-> "ErrServerClosed"]
  ELSE IF Temporary(err) THEN [st |-> "accept", res |-> "none"]
  ELSE [st |-> "ret", res |-> err]

\* Server.Serve after a failed Accept: the select on getDoneChan(), the test
\* of Temporary(), and on return the deferred l.Close()
ServeCheck(s) ==
  /\ ~crashed
  /\ srv[s].st = "err"
  /\ LET r == acceptError(srv[s].err, doneChan)
     IN /\ srv' = [srv EXCEPT ![s].st = r.st, ![s].res = r.res,
                              ![s].err = IF r.st = "ret" THEN "nil" ELSE @]
        /\ lsn' = IF r.st = "ret" THEN [lsn EXCEPT ![s] = "closed"] ELSE lsn
  /\ doneChan' = getDoneChanLocked(doneChan)
  /\ UNCHANGED <<Auth, Cmds, peers, listener, connVars, codecVars>>

\* Server.Close: closeDoneChanLocked, then Close of the installed listener.
\* closed records, for each Serve standing in its loop, that Close was called
CloseDropsConns ==
  /\ doneChan' = closeDoneChanLocked(getDoneChanLocked(doneChan))
  /\ lsn' = IF listener # 0 THEN [lsn EXCEPT ![listener] = "closed"] ELSE lsn
  /\ srv' = [s \in Serves |->
               [srv[s] EXCEPT !.closed = @ \/ srv[s].st \in {"accept", "err"}]]
  /\ cconn' = [c \in Conns |-> IF cconn[c] = "open" THEN "closed" ELSE cconn[c]]
  /\ tconn' = [c \in Conns |-> IF tconn[c] = "open" THEN "closed" ELSE tconn[c]]
  /\ UNCHANGED <<Auth, Cmds, peers, listener, crashed, pc, buf, rd, out, req, ops,
                 cin, tin, down, relayed, bindl, codecVars>>

Close ==
  /\ doneChan' = closeDoneChanLocked(getDoneChanLocked(doneChan))
  /\ lsn' = IF listener # 0 THEN [lsn EXCEPT ![listener] = "closed"] ELSE lsn
  /\ srv' = [s \in Serves |->
               [srv[s] EXCEPT !.closed = @ \/ srv[s].st \in {"accept", "err"}]]
  /\ UNCHANGED <<Auth, Cmds, peers, listener, connVars, codecVars>>

\* ------------------------------------------------------- handleConnection
\* handleConnection, "defer c.Close()": the client connection once the handler
\* task stands at p; a return and a panic both run the deferred call
deferCloseForgotten(conn, p) == conn

deferClose(conn, p) == IF p \in {"done", "panic"} THEN "closed" ELSE conn

\* handleConnection, "if err != nil { return }" after Negoatiate and after
\* Authenticate: the stage that follows one that returned err
stageAfterIgnoresError(err, next) == next

stageAfter(err, next) == IF err = "nil" THEN next ELSE "done"

\* handleConnection up to the end of Negoatiate; an error returns, and the
\* deferred c.Close() runs
HcNegotiate(c) ==
  /\ ~crashed
  /\ pc[c] = "negotiate"
  /\ \E in \in NegIn, wok \in WriteOK :
       LET r == Negoatiate(buf[c], AuthMethod(Auth), in, wok)
       IN /\ r.wr = <<>> => wok
          /\ buf' = [buf EXCEPT ![c] = r.buf]
          /\ rd' = [rd EXCEPT ![c] = [op |-> "Negoatiate", in |-> in, err |-> r.err]]
          /\ out' = [out EXCEPT ![c] = Wrote(@, "Negoatiate", r, wok)]
          /\ pc' = [pc EXCEPT ![c] = stageAfter(r.err, "auth")]
          /\ cconn' = [cconn EXCEPT ![c] = deferClose(@, pc'[c])]
  /\ UNCHANGED <<serveVars, codecVars>>
  /\ UNCHANGED <<Auth, Cmds, crashed, req, ops, tconn, cin, tin, down, relayed, bindl>>

\* handleConnection: s.Auth.Authenticate(c)
HcAuthenticate(c) ==
  /\ ~crashed
  /\ pc[c] = "auth"
  /\ \E in \in (IF Auth = "UserPass" THEN AuthInputs ELSE {<<>>}), wok \in WriteOK :
       LET r == Authenticate(Auth, buf[c], in, wok)
       IN /\ r.wr = <<>> => wok
          /\ buf' = [buf EXCEPT ![c] = r.buf]
          /\ rd' = [rd EXCEPT ![c] = [op |-> "Authenticate", in |-> in, err |-> r.err]]
          /\ out' = [out EXCEPT ![c] = Wrote(@, "Authenticate", r, wok)]
          /\ pc' = [pc EXCEPT ![c] = stageAfter(r.err, "request")]
          /\ cconn' = [cconn EXCEPT ![c] = deferClose(@, pc'[c])]
  /\ UNCHANGED <<serveVars, codecVars>>
  /\ UNCHANGED <<Auth, Cmds, crashed, req, ops, tconn, cin, tin, down, relayed, bindl>>

\* handleConnection from ReadCommandRequest to the switch on cmd:
\* [buf, wr, next] after the request r was read
Dispatch(r, wok) ==
  LET reply(code) == WriteError(r.buf, code, wok)
      none == [buf |-> r.buf, wr |-> <<>>]
  IN CASE r.err = "ErrInvalidSocksVer" -> reply(responseGeneralFailure) @@ [next |-> "done"]
       [] r.err = "ErrAddressTypeNotSupported" ->
            reply(responseAddressNotSupported) @@ [next |-> "done"]
       [] r.err \notin {"nil", "ErrInvalidSocksVer", "ErrAddressTypeNotSupported"} ->
            none @@ [next |-> "done"]
       [] r.err = "nil" /\ r.method = CommandConnect -> none @@ [next |-> "connect"]
       [] r.err = "nil" /\ r.method = CommandBind -> none @@ [next |-> "bind"]
       [] r.err = "nil" /\ r.method = CommandUDPAssociation ->
            reply(responseCommandNotSupported) @@ [next |-> "done"]
       [] OTHER -> reply(responseCommandNotSupported) @@ [next |-> "done"]

HcRequest(c) ==
  /\ ~crashed
  /\ pc[c] = "request"
  /\ \E in \in ReqIn, wok \in WriteOK :
       LET r == ReadCommandRequest(buf[c], in)
           d == Dispatch(r, wok)
       IN /\ d.wr = <<>> => wok
          /\ buf' = [buf EXCEPT ![c] = d.buf]
          /\ rd' = [rd EXCEPT ![c] = [op |-> "ReadCommandRequest", in |-> in, err |-> r.err]]
          /\ req' = [req EXCEPT ![c] = [method |-> r.method, addr |-> r.addr]]
          /\ out' = [out EXCEPT ![c] = Wrote(@, "WriteError", d, wok)]
          /\ pc' = [pc EXCEPT ![c] = d.next]
          /\ cconn' = [cconn EXCEPT ![c] = deferClose(@, pc'[c])]
  /\ UNCHANGED <<serveVars, codecVars>>
  /\ UNCHANGED <<Auth, Cmds, crashed, ops, tconn, cin, tin, down, relayed, bindl>>

\* --------------------------------------------------------- command handlers
Call(op, ok, addr) == [op |-> op, ok |-> ok, addr |-> addr]

\* Server.handleConnect after Dial("tcp", addr): the reply on the client
\* connection; t is the dialed connection's LocalAddr(), NoText when Dial failed
connectReplyEchoesTarget(b, addr, t, wok) ==
  IF t # NoText THEN WriteCommandResponse(b, responseSuccess, addr.Addr, wok)
  ELSE WriteError(b, responseHostUnreachable, wok)

connectReplyGeneralFailure(b, addr, t, wok) ==
  IF t # NoText THEN WriteCommandResponse(b, responseSuccess, t, wok)
  ELSE WriteError(b, responseGeneralFailure, wok)

connectReply(b, addr, t, wok) ==
  IF t # NoText THEN WriteCommandResponse(b, responseSuccess, t, wok)
  ELSE WriteError(b, responseHostUnreachable, wok)

\* Server.handleConnect: Dial, then WriteError and return, or
\* WriteCommandResponse with the connection's local address and Relay
handleConnect(c) ==
  /\ ~crashed
  /\ pc[c] = "connect"
  /\ \E t \in Dialed, wok \in WriteOK :
       LET dialed == t # NoText
           r == connectReply(buf[c], req[c].addr, t, wok)
           relay == dialed /\ r.err = "nil"
       IN /\ buf' = [buf EXCEPT ![c] = r.buf]
          /\ ops' = [ops EXCEPT ![c] = Append(@, Call("dial", dialed, t))]
          /\ out' = [out EXCEPT ![c] =
                       Wrote(@, IF dialed THEN "WriteCommandResponse" ELSE "WriteError", r, wok)]
          /\ tconn' = [tconn EXCEPT ![c] = IF dialed THEN "open" ELSE @]
          /\ pc' = [pc EXCEPT ![c] = IF relay THEN "relay" ELSE "done"]
          /\ down' = [down EXCEPT ![c] = IF relay THEN "run" ELSE @]
          /\ cconn' = [cconn EXCEPT ![c] = deferClose(@, pc'[c])]
  /\ UNCHANGED <<serveVars, codecVars>>
  /\ UNCHANGED <<Auth, Cmds, crashed, rd, req, cin, tin, relayed, bindl>>

\* Server.handleBind after Listen("tcp", addr): the reply; l is the listener's
\* Addr(), NoText when Listen failed
bindListenReply(b, l, wok) ==
  IF l # NoText THEN WriteCommandResponse(b, responseSuccess, l, wok)
  ELSE WriteError(b, responseGeneralFailure, wok)

\* Server.handleBind after l.Accept(): the reply; nc is the accepted
\* connection's RemoteAddr(), NoText when Accept failed
bindAcceptReplyListenAddr(b, l, nc, wok) ==
  IF nc # NoText THEN WriteCommandResponse(b, responseSuccess, l, wok)
  ELSE WriteError(b, responseGeneralFailure, wok)

bindAcceptReply(b, l, nc, wok) ==
  IF nc # NoText THEN WriteCommandResponse(b, responseSuccess, nc, wok)
  ELSE WriteError(b, responseGeneralFailure, wok)

\* Server.handleBind up to l.Accept(): Listen, then WriteError and return, or
\* WriteCommandResponse with the listener's address
handleBindListen(c) ==
  /\ ~crashed
  /\ pc[c] = "bind"
  /\ \E l \in {NoText} \cup ListenAddrs, wok \in BOOLEAN :
       LET listening == l # NoText
           r == bindListenReply(buf[c], l, wok)
           accept == listening /\ r.err = "nil"
       IN /\ buf' = [buf EXCEPT ![c] = r.buf]
          /\ ops' = [ops EXCEPT ![c] = Append(@, Call("listen", listening, l))]
          /\ out' = [out EXCEPT ![c] =
                       Wrote(@, IF listening THEN "WriteCommandResponse" ELSE "WriteError", r, wok)]
          /\ pc' = [pc EXCEPT ![c] = IF accept THEN "accept" ELSE "done"]
          /\ cconn' = [cconn EXCEPT ![c] = deferClose(@, pc'[c])]
          /\ bindl' = [bindl EXCEPT ![c] = IF listening THEN "open" ELSE @]
  /\ UNCHANGED <<serveVars, codecVars>>
  /\ UNCHANGED <<Auth, Cmds, crashed, rd, req, tconn, cin, tin, down, relayed>>

\* Server.handleBind from l.Accept(): when Accept fails, nc is nil; WriteError
\* is called and the handler goes on to nc.RemoteAddr(), a nil dereference:
\* the panic unwinds through the deferred c.Close() and ends the process
handleBindAccept(c) ==
  /\ ~crashed
  /\ pc[c] = "accept"
  /\ \E nc \in {NoText} \cup PeerAddrs, wok \in BOOLEAN :
       LET accepted == nc # NoText
           r == bindAcceptReply(buf[c], ops[c][Len(ops[c])].addr, nc, wok)
           relay == accepted /\ r.err = "nil"
       IN /\ buf' = [buf EXCEPT ![c] = r.buf]
          /\ ops' = [ops EXCEPT ![c] = Append(@, Call("accept", accepted, nc))]
          /\ out' = [out EXCEPT ![c] =
                       Wrote(@, IF accepted THEN "WriteCommandResponse" ELSE "WriteError", r, wok)]
          /\ tconn' = [tconn EXCEPT ![c] = IF accepted THEN "open" ELSE @]
          /\ pc' = [pc EXCEPT ![c] =
                      IF ~accepted THEN "panic" ELSE IF relay THEN "relay" ELSE "done"]
          /\ down' = [down EXCEPT ![c] = IF relay THEN "run" ELSE @]
          /\ cconn' = [cconn EXCEPT ![c] = deferClose(@, pc'[c])]
          /\ crashed' = ~accepted
  /\ UNCHANGED <<serveVars, codecVars>>
  /\ UNCHANGED <<Auth, Cmds, rd, req, cin, tin, relayed, bindl>>

\* ------------------------------------------------------------------ Relay
\* A Write on a connection this process has closed fails; on an open
\* connection whose peer is gone it may fail
WriteOutcomes(conn, peer) ==
  IF conn = "closed" THEN {FALSE} ELSE IF peer = "eof" THEN {TRUE, FALSE} ELSE {TRUE}

\* conn.Relay, io.Copy(tconn, c) in the handler task: one Read of the client
\* and the Write to the target; when Copy ends Relay, handleConnect or
\* handleBind, and handleConnection return, and the deferred c.Close() runs
RelayUp(c) ==
  /\ ~crashed
  /\ pc[c] = "relay"
  /\ \/ /\ cin[c] = "data"
        /\ cin' = [cin EXCEPT ![c] = "idle"]
        /\ \E wok \in WriteOutcomes(tconn[c], tin[c]) :
             /\ relayed' = [relayed EXCEPT ![c] = @ \/ wok]
             /\ pc' = [pc EXCEPT ![c] = IF wok THEN @ ELSE "done"]
             /\ cconn' = [cconn EXCEPT ![c] = deferClose(@, pc'[c])]
     \/ /\ cin[c] = "eof"
        /\ pc' = [pc EXCEPT ![c] = "done"]
        /\ cconn' = [cconn EXCEPT ![c] = deferClose(@, pc'[c])]
        /\ UNCHANGED <<cin, relayed>>
  /\ UNCHANGED <<serveVars, codecVars>>
  /\ UNCHANGED <<Auth, Cmds, crashed, buf, rd, out, req, ops, tconn, tin, down, bindl>>

\* conn.Relay, the goroutine: io.Copy(c, tconn), one Read of the target and
\* the Write to the client; when Copy ends the deferred tconn.Close() runs
RelayDown(c) ==
  /\ ~crashed
  /\ down[c] = "run"
  /\ \/ /\ tin[c] = "data"
        /\ tin' = [tin EXCEPT ![c] = "idle"]
        /\ \E wok \in WriteOutcomes(cconn[c], cin[c]) :
             /\ relayed' = [relayed EXCEPT ![c] = @ \/ wok]
             /\ down' = [down EXCEPT ![c] = IF wok THEN @ ELSE "done"]
             /\ tconn' = [tconn EXCEPT ![c] = IF wok THEN @ ELSE "closed"]
     \/ /\ tin[c] = "eof"
        /\ down' = [down EXCEPT ![c] = "done"]
        /\ tconn' = [tconn EXCEPT ![c] = "closed"]
        /\ UNCHANGED <<tin, relayed>>
  /\ UNCHANGED <<serveVars, codecVars>>
  /\ UNCHANGED <<Auth, Cmds, crashed, pc, buf, rd, out, req, ops, cconn, cin, bindl>>

\* ------------------------------------------------------------ the two peers
ClientSend(c) ==
  /\ ~crashed
  /\ pc[c] = "relay"
  /\ cin[c] = "idle"
  /\ cin' = [cin EXCEPT ![c] = "data"]
  /\ UNCHANGED <<serveVars, codecVars>>
  /\ UNCHANGED <<Auth, Cmds, crashed, pc, buf, rd, out, req, ops, cconn, tconn, tin,
                 down, relayed, bindl>>

\* the client closes its end, or the client connection fails
ClientClose(c) ==
  /\ ~crashed
  /\ pc[c] = "relay"
  /\ cin[c] # "eof"
  /\ cin' = [cin EXCEPT ![c] = "eof"]
  /\ UNCHANGED <<serveVars, codecVars>>
  /\ UNCHANGED <<Auth, Cmds, crashed, pc, buf, rd, out, req, ops, cconn, tconn, tin,
                 down, relayed, bindl>>

TargetSend(c) ==
  /\ ~crashed
  /\ down[c] = "run"
  /\ tin[c] = "idle"
  /\ tin' = [tin EXCEPT ![c] = "data"]
  /\ UNCHANGED <<serveVars, codecVars>>
  /\ UNCHANGED <<Auth, Cmds, crashed, pc, buf, rd, out, req, ops, cconn, tconn, cin,
                 down, relayed, bindl>>

\* the target closes its end, or the target connection fails
TargetClose(c) ==
  /\ ~crashed
  /\ down[c] = "run"
  /\ tin[c] # "eof"
  /\ tin' = [tin EXCEPT ![c] = "eof"]
  /\ UNCHANGED <<serveVars, codecVars>>
  /\ UNCHANGED <<Auth, Cmds, crashed, pc, buf, rd, out, req, ops, cconn, tconn, cin,
                 down, relayed, bindl>>

\* ---------------------------------------------------------- specifications
Next ==
  \E c \in Conns :
    \/ ServeAccept(c)
    \/ HcNegotiate(c)
    \/ HcAuthenticate(c)
    \/ HcRequest(c)
    \/ handleConnect(c)
    \/ handleBindListen(c)
    \/ handleBindAccept(c)
    \/ RelayUp(c)
    \/ RelayDown(c)
    \/ ClientSend(c)
    \/ ClientClose(c)
    \/ TargetSend(c)
    \/ TargetClose(c)

Spec == Init /\ [][Next]_vars

\* The Go scheduler runs a copy task whose Read can return; nothing makes a
\* peer send or close
FairSpec ==
  Spec /\ \A c \in Conns : WF_vars(RelayUp(c)) /\ WF_vars(RelayDown(c))

\* A Server value of the caller's: NoAuth, CONNECT only, nothing serving yet.
\* Serve and Close are called at any time, Accept fails at any time; the
\* peers are plain: the client does nothing but close its end and the target
\* stays silent, so Relay's goroutine stays in its Read
ServeInit ==
  /\ Auth = "NoAuth"
  /\ Cmds = {CommandConnect}
  /\ NoConns
  /\ peers = "plain"
  /\ srv = [s \in Serves |-> NoServe]
  /\ lsn = [s \in Serves |-> "none"]
  /\ listener = 0
  /\ doneChan = "nil"
  /\ marg = NoMarshal
  /\ mres = NoResult
  /\ mtext = NoText
  /\ mdec = NoDecode

ServeNext ==
  \/ \E s \in Serves :
       \/ ServeStart(s)
       \/ ServeAcceptFails(s)
       \/ ServeCheck(s)
  \/ Close
  \/ \E c \in Conns :
       \/ ServeAccept(c)
       \/ HcNegotiate(c)
       \/ HcAuthenticate(c)
       \/ HcRequest(c)
       \/ handleConnect(c)
       \/ RelayUp(c)
       \/ ClientClose(c)

ServeSpec == ServeInit /\ [][ServeNext]_vars

\* ------------------------------------------------- the codec on its own
\* Marshal is applied to one record and one buffer: each address type with
\* an IPv4 literal, an IPv6 literal and a name as host, with a port, a port
\* that is no number and no port; buffers of every length up to MaxBuf, of
\* the lengths around an IPv6 address and of the lengths the callers pass,
\* zeroed or holding earlier bytes
AddrTypes == {AddrTypeIPv4, AddrTypeDomain, AddrTypeIPv6}
Hosts == {[k |-> "ip4", ip |-> IP4Target], [k |-> "ip6", ip |-> IP6Local],
          HostOfBytes(HostAB)}
AddrTexts == {JoinHostPort(h, p) : h \in Hosts, p \in {Itoa(80), <<97>>}}
               \cup {[host |-> h] : h \in Hosts}
BufLens == (0..MaxBuf) \cup {IPv6len + 2, IPv6len + 3, 256, BufSize - 3}
Fill(n, x) == IF x = 0 THEN <<>> ELSE [i \in 1..Min(n, MaxBuf) |-> x]
MarshalInputs ==
  {[s |-> [Type |-> ty, Addr |-> a], b |-> Fill(n, x), n |-> n] :
     ty \in AddrTypes, a \in AddrTexts, n \in BufLens, x \in {0, 170}}

\* the texts newAddr is given: IPv4 literals, IPv6 literals (one of them
\* IPv4-mapped, ::ffff:a00:1) and names as host, with the ports 0, 80 and
\* 65535 and the port 80 written 080; and the buffers of the lengths the
\* callers pass
NewAddrHosts ==
  {[k |-> "ip4", ip |-> IP4Target], [k |-> "ip4", ip |-> <<0, 0, 0, 0>>],
   [k |-> "ip6", ip |-> IP6Local], [k |-> "ip6", ip |-> [i \in 1..IPv6len |-> 0]],
   [k |-> "ip6", ip |-> v4InV6Prefix \o IP4Target],
   HostOfBytes(HostAB), HostOfBytes(<<>>)}
NewAddrTexts ==
  {JoinHostPort(h, p) :
     h \in NewAddrHosts, p \in {Itoa(0), Itoa(80), Itoa(65535), <<48>> \o Itoa(80)}}
RoomyBuffers ==
  {[NoMarshal EXCEPT !.b = Fill(n, x), !.n = n] : n \in {256, BufSize - 3}, x \in {0, 170}}

CodecInit ==
  /\ Auth = "NoAuth"
  /\ Cmds = {CommandConnect}
  /\ NoConns
  /\ peers = "plain"
  /\ srv = [s \in Serves |-> NoServe]
  /\ lsn = [s \in Serves |-> "none"]
  /\ listener = 0
  /\ doneChan = "nil"
  /\ \/ mtext = NoText /\ marg \in MarshalInputs
     \/ mtext \in NewAddrTexts /\ marg \in RoomyBuffers
  /\ mres = NoResult
  /\ mdec = NoDecode

\* newAddr(addr): the record becomes the receiver of the Marshal call
NewAddrCall ==
  /\ mtext # NoText
  /\ marg.s = NilAddr
  /\ marg' = [marg EXCEPT !.s = newAddr(mtext)]
  /\ UNCHANGED <<Auth, Cmds, connVars, serveVars, mres, mtext, mdec>>

\* s.Marshal(b), s not nil
MarshalCall ==
  /\ marg.s # NilAddr
  /\ mres = NoResult
  /\ mres' = Marshal(marg.s, marg.b, marg.n)
  /\ UNCHANGED <<Auth, Cmds, connVars, serveVars, marg, mtext, mdec>>

\* conn.ReadCommandRequest on a CONNECT request that carries the n bytes
\* Marshal wrote as its address
DecodeCall ==
  /\ mres.err = "nil"
  /\ mdec = NoDecode
  /\ LET r == ReadCommandRequest(<<>>, <<socksVer5, CommandConnect, reserve>>
                                         \o Sl(mres.b, 0, mres.n))
     IN mdec' = [err |-> r.err, method |-> r.method, addr |-> r.addr]
  /\ UNCHANGED <<Auth, Cmds, connVars, serveVars, marg, mres, mtext>>

CodecNext == NewAddrCall \/ MarshalCall \/ DecodeCall

CodecSpec == CodecInit /\ [][CodecNext]_vars

\* ------------------------------------------------------------------ claims
IsResponse(w) == w.op \in {"WriteCommandResponse", "WriteError"}

\* the command responses and error replies written on connection c
Responses(c) == SelectSeq(out[c], IsResponse)

\* a reply frame read back as the wire format lays it out: version, code,
\* reserved, address type, address, port
Decode(frame) == ReadCommandRequest(<<>>, frame)

ErrorReply(code) == <<socksVer5, code, reserve, AddrTypeIPv4, 0, 0, 0, 0, 0, 0>>

RelayRunning(c) == pc[c] = "relay" \/ down[c] = "run"

\* C1: once Relay runs and either side has reached end-of-input or failed,
\* eventually both copy directions have stopped and both connections are closed
RelayReleasesBoth ==
  \A c \in Conns :
    (RelayRunning(c) /\ (cin[c] = "eof" \/ tin[c] = "eof"))
      ~> (pc[c] # "relay" /\ down[c] = "done"
            /\ cconn[c] = "closed" /\ tconn[c] = "closed")

\* C2: with Cmds = {CONNECT}, a request whose command is not CONNECT makes the
\* handler dial nothing and listen on nothing, and every reply it writes has
\* the code CommandNotSupported
DisallowedCommandNotExecuted ==
  \A c \in Conns :
    (/\ Cmds = {CommandConnect}
     /\ rd[c].op = "ReadCommandRequest" /\ rd[c].err = "nil"
     /\ req[c].method \notin Cmds)
      => /\ ops[c] = <<>>
         /\ \A i \in 1..Len(Responses(c)) :
              Responses(c)[i].b[2] = responseCommandNotSupported

\* C3: every WriteError(code) hands Write exactly the ten bytes
\* 05 code 00 01 00 00 00 00 00 00
WriteErrorFixedShape ==
  \A c \in Conns : \A i \in 1..Len(out[c]) :
    out[c][i].op = "WriteError" => out[c][i].b = ErrorReply(out[c][i].b[2])

\* C4: after ReadCommandRequest has returned ErrInvalidSocksVer the handler
\* writes nothing to the client
BadRequestVersionWritesNothing ==
  \A c \in Conns :
    (rd[c].op = "ReadCommandRequest" /\ rd[c].err = "ErrInvalidSocksVer")
      => Responses(c) = <<>>

\* C5: when the BIND handler's Accept fails, the handler has written the
\* GeneralFailure reply as its last reply and has returned: it does not go on
\* to use the accepted connection, and there is no relay
BindAcceptFailureAborts ==
  \A c \in Conns :
    (ops[c] # <<>> /\ ops[c][Len(ops[c])] = Call("accept", FALSE, NoText))
      => /\ pc[c] = "done"
         /\ Responses(c)[Len(Responses(c))].op = "WriteError"
         /\ Responses(c)[Len(Responses(c))].b[2] = responseGeneralFailure
         /\ down[c] = "none" /\ ~relayed[c]

\* C6: no connection's input or failures crash the process
ProcessNeverCrashes == ~crashed

\* C7: after a CONNECT whose dial succeeded there is exactly one reply, a
\* Success response carrying the dialed connection's local address, and no
\* byte is relayed unless that response was written
ConnectSuccessResponse ==
  \A c \in Conns :
    (ops[c] # <<>> /\ ops[c][1].op = "dial" /\ ops[c][1].ok)
      => /\ Len(Responses(c)) = 1
         /\ Responses(c)[1].op = "WriteCommandResponse"
         /\ Responses(c)[1].b[1] = socksVer5
         /\ Responses(c)[1].b[3] = reserve
         /\ Decode(Responses(c)[1].b).err = "nil"
         /\ Decode(Responses(c)[1].b).method = responseSuccess
         /\ Decode(Responses(c)[1].b).addr.Addr = ops[c][1].addr
         /\ (RelayRunning(c) \/ relayed[c]) => Responses(c)[1].ok

ConnectSuccessRelayed ==
  \E c \in Conns :
    /\ req[c].method = CommandConnect
    /\ ops[c] # <<>> /\ ops[c][1].op = "dial" /\ ops[c][1].ok
    /\ relayed[c]

\* C8: after a BIND whose listen succeeded and whose Accept returned a
\* connection there are exactly two replies, both Success responses, the first
\* carrying the listener's address and the second the accepted connection's
\* remote address, and no byte is relayed unless both were written
BindSuccessResponses ==
  \A c \in Conns :
    (Len(ops[c]) = 2 /\ ops[c][2].op = "accept" /\ ops[c][2].ok)
      => /\ Len(Responses(c)) = 2
         /\ \A i \in 1..2 :
              /\ Responses(c)[i].op = "WriteCommandResponse"
              /\ Responses(c)[i].b[1] = socksVer5
              /\ Decode(Responses(c)[i].b).err = "nil"
              /\ Decode(Responses(c)[i].b).method = responseSuccess
              /\ Decode(Responses(c)[i].b).addr.Addr = ops[c][i].addr
         /\ ops[c][1] = Call("listen", TRUE, ops[c][1].addr)
         /\ Responses(c)[1].ok
         /\ (RelayRunning(c) \/ relayed[c]) => Responses(c)[2].ok

BindSuccessRelayed ==
  \E c \in Conns :
    /\ req[c].method = CommandBind
    /\ Len(ops[c]) = 2 /\ ops[c][2].op = "accept" /\ ops[c][2].ok
    /\ ops[c][1].addr # ops[c][2].addr
    /\ relayed[c]

\* C9: after a CONNECT whose dial failed there is exactly one reply, its code
\* is HostUnreachable, no target connection and no relay exist, and the
\* handler has returned with the client connection closed
ConnectDialFailure ==
  \A c \in Conns :
    (ops[c] # <<>> /\ ops[c][1] = Call("dial", FALSE, NoText))
      => /\ Len(Responses(c)) = 1
         /\ Len(Responses(c)[1].b) = 10
         /\ Responses(c)[1].b[2] = responseHostUnreachable
         /\ tconn[c] = "none" /\ down[c] = "none" /\ ~relayed[c]
         /\ pc[c] = "done" /\ cconn[c] = "closed"

ConnectDialFailed ==
  \E c \in Conns :
    /\ req[c].method = CommandConnect
    /\ ops[c] = <<Call("dial", FALSE, NoText)>>
    /\ cconn[c] = "closed"

\* the method list of a complete version-5 negotiation frame
CompleteNegotiation(in) == Len(in) >= 2 /\ in[1] = socksVer5 /\ Len(in) = 2 + in[2]
Offered(in) == {in[i] : i \in 3..Len(in)}

BadNegotiationVersion ==
  \A c \in Conns :
    (rd[c].op = "Negoatiate" /\ Len(rd[c].in) >= 2 /\ rd[c].in[1] # socksVer5)
      => /\ rd[c].err = "ErrInvalidSocksVer"
         /\ out[c] = <<>>
         /\ buf[c] = Trim(SubSeq(rd[c].in, 1, 2))
         /\ req[c] = NoRequest /\ ops[c] = <<>>
         /\ pc[c] = "done" /\ cconn[c] = "closed"

BadNegotiationVersionSeen ==
  \E c \in Conns :
    /\ rd[c] = [op |-> "Negoatiate", in |-> <<4, 1, userPassAuth>>,
                err |-> "ErrInvalidSocksVer"]
    /\ buf[c] = <<4, 1>>
    /\ out[c] = <<>>
    /\ cconn[c] = "closed"

\* C12: a Serve that Close found standing in its accept loop, its listener
\* installed, returns ErrServerClosed and no other error
CloseEndsServe ==
  \A s \in Serves :
    (srv[s].st = "ret" /\ srv[s].closed) => srv[s].res = "ErrServerClosed"

\* C13: the shutdown signal belongs to one serve cycle: a Serve returns
\* ErrServerClosed only if Close was called after it installed its listener,
\* and while no Close was called since the latest Serve installed its listener
\* the signal is unset, whatever Close did before
ShutdownSignalPerCycle ==
  \A s \in Serves :
    /\ srv[s].res = "ErrServerClosed" => srv[s].closed
    /\ (listener = s /\ srv[s].st \in {"accept", "err"} /\ ~srv[s].closed)
         => doneChan # "closed"

\* Close on a Server that never served, then Serve: it has been through a
\* failed Accept without returning, and a connection it accepted is relayed
ServeAfterCloseAccepts ==
  /\ srv[1].pre /\ ~srv[1].closed
  /\ srv[1].st = "accept" /\ srv[1].err = "EMFILE"
  /\ \A s \in Serves : s # 1 => srv[s].st = "idle"
  /\ \E c \in Conns : pc[c] = "relay"

HandlerReturnClosesClient ==
  \A c \in Conns : pc[c] \in {"done", "panic"} => cconn[c] = "closed"

\* the handler returned from a relay that had copied bytes
RelayReturnClosedClient ==
  \E c \in Conns : pc[c] = "done" /\ relayed[c] /\ cconn[c] = "closed"

\* connection c is past Negoatiate, and past Authenticate
PastNegotiate(c) ==
  \/ pc[c] \in {"auth", "request", "connect", "bind", "accept", "relay", "panic"}
  \/ rd[c].op \in {"Authenticate", "ReadCommandRequest"}
  \/ req[c] # NoRequest \/ ops[c] # <<>> \/ Responses(c) # <<>> \/ tconn[c] # "none"
PastAuthenticate(c) ==
  \/ pc[c] \in {"request", "connect", "bind", "accept", "relay", "panic"}
  \/ rd[c].op = "ReadCommandRequest"
  \/ req[c] # NoRequest \/ ops[c] # <<>> \/ Responses(c) # <<>> \/ tconn[c] # "none"

AcceptedConnectionHandled ==
  \A c \in Conns : cconn[c] = "open" => pc[c] \notin {"none", "dropped"}

\* C18: when Serve handles a failed Accept with the shutdown signal unset, a
\* temporary error sends it back to Accept without a result, and any other
\* error makes it return that very error
AcceptErrorHandling ==
  [][\A s \in Serves :
       (srv[s].st = "err" /\ srv'[s].st # "err" /\ doneChan # "closed")
         => IF srv[s].err = "EMFILE"
            THEN srv'[s].st = "accept" /\ srv'[s].res = "none"
            ELSE srv'[s].st = "ret" /\ srv'[s].res = srv[s].err]_vars

\* a Serve is back in Accept after a temporary error, another has returned
\* the permanent error of its Accept; no Close was called on either
TransientRetriedPermanentReturned ==
  \E s, t \in Serves :
    /\ srv[s].st = "accept" /\ srv[s].err = "EMFILE" /\ ~srv[s].closed
    /\ srv[t].st = "ret" /\ srv[t].res = "EINVAL" /\ ~srv[t].closed

\* the family of a host text that is an IP literal, as an address type
HostFamily(h) ==
  CASE h.k = "ip4" -> AddrTypeIPv4
    [] h.k = "ip6" -> AddrTypeIPv6
    [] OTHER -> AddrTypeDomain

\* C19: Marshal of a record whose type is IPv4 or IPv6 and whose host is not
\* an IP literal of that family, with a port that is a number and a buffer
\* that holds any IP address, fails with ErrInvalidAddr and reports 0 bytes
FamilyMismatchRejected ==
  (/\ mres # NoResult
   /\ mtext = NoText
   /\ marg.n >= 3 + IPv6len
   /\ "port" \in DOMAIN marg.s.Addr /\ ~ParseUint16(marg.s.Addr.port).err
   /\ marg.s.Type \in {AddrTypeIPv4, AddrTypeIPv6}
   /\ HostFamily(marg.s.Addr.host) # marg.s.Type)
    => mres.err = "ErrInvalidAddr" /\ mres.n = 0

\* the length of the address part Marshal writes for a record
AddrLen(s) ==
  CASE s.Type = AddrTypeIPv4 -> IPv4len
    [] s.Type = AddrTypeIPv6 -> IPv6len
    [] OTHER -> 1 + (IF "port" \in DOMAIN s.Addr THEN Len(HostChars(s.Addr.host)) ELSE 0)

\* C20 as stated: Marshal into a buffer shorter than 3 + addrLen fails with
\* ErrShortBuffer, reports 0 bytes and leaves the buffer as it was; and every
\* failing Marshal reports 0 bytes
ShortBufferAlwaysShortBuffer ==
  mres # NoResult
    => /\ marg.n < 3 + AddrLen(marg.s)
            => mres = [n |-> 0, err |-> "ErrShortBuffer", b |-> marg.b]
       /\ mres.err # "nil" => mres.n = 0

\* the address has a port part and, under an IP type, an IP literal as host
Splits(s) ==
  /\ "port" \in DOMAIN s.Addr
  /\ s.Type \in {AddrTypeIPv4, AddrTypeIPv6} => s.Addr.host.k \in {"ip4", "ip6"}

\* C20, amended: Marshal into a buffer shorter than 3 + addrLen fails, reports
\* 0 bytes and leaves the buffer as it was; the error is ErrShortBuffer when
\* the address has a port part and, under an IP type, an IP literal as host,
\* and ErrInvalidAddr otherwise; and every failing Marshal reports 0 bytes
ShortBufferFails ==
  mres # NoResult
    => /\ marg.n < 3 + AddrLen(marg.s)
            => mres = [n |-> 0,
                       err |-> IF Splits(marg.s) THEN "ErrShortBuffer" ELSE "ErrInvalidAddr",
                       b |-> marg.b]
       /\ mres.err # "nil" => mres.n = 0

\* an IPv4 record refused by a five-byte buffer that held other bytes
ShortBufferRefused ==
  /\ marg.s.Type = AddrTypeIPv4 /\ marg.n = 5 /\ marg.b # <<>>
  /\ mres = [n |-> 0, err |-> "ErrShortBuffer", b |-> marg.b]

Canonical(a) ==
  /\ a.port = Itoa(DigitsValue(a.port))
  /\ a.host.k = "ip6" => To4(a.host.ip) = NoIP

\* the type newAddr gives a host: IPv4 for every literal with a 4-byte form
NewAddrType(h) ==
  IF h.k \in {"ip4", "ip6"} /\ To4(ParseIP(h)) # NoIP THEN AddrTypeIPv4
  ELSE IF h.k = "ip6" THEN AddrTypeIPv6
  ELSE AddrTypeDomain

ConnectTargetClosed ==
  \A c \in Conns :
    (pc[c] = "done" /\ req[c].method = CommandConnect) => tconn[c] # "open"

\* the calls of l.Accept() the command handler of connection c has made
BindAccepts(c) == {i \in 1..Len(ops[c]) : ops[c][i].op = "accept"}

\* C23: the BIND handler calls Accept on its listener at most once, and when
\* the handler has returned (reply write failed, or the relay is over) the
\* listener it opened is not open any more
BindListenerClosed ==
  \A c \in Conns :
    /\ Cardinality(BindAccepts(c)) <= 1
    /\ pc[c] = "done" => bindl[c] # "open"
====
